---------------------------- MODULE Spec2Model ----------------------------
(***************************************************************************)
(* generate_icon.py: the icon renderer create_icon(size) with its helpers  *)
(* create_gradient and draw_rounded_rect, and the export pipeline main().  *)
(*                                                                         *)
(* A run is one call of an entry point: create_icon(size) for a side       *)
(* length drawn from 1..MaxN, rendered pixel by pixel, or main().          *)
(*                                                                         *)
(* Numbers.  The renderer's measurements are int(size * c) for a decimal   *)
(* literal c; they are computed here as (size * 1000c) \div 1000.  For the *)
(* literals of the source and every size up to 199, and for 1024, the      *)
(* IEEE-754 product truncates to exactly this value, and so does every     *)
(* gradient channel for sizes below 60.  A logical size is kept in tenths  *)
(* (83.5 is 835): the only fractional literal of the size table is 83.5.   *)
(*                                                                         *)
(* Pillow.  ImageDraw on an RGBA image stores the fill as given, alpha     *)
(* included (no blending).  A rectangle given with x1 < x0 is drawn with   *)
(* its coordinates swapped by older Pillow releases and rejected with a    *)
(* ValueError by newer ones: `strict` says which library the run has.      *)
(***************************************************************************)
EXTENDS Integers, Sequences, FiniteSets, TLC

VARIABLES
    entry,        \* the entry point of the run: "create_icon" or "main"
    pc,           \* the statement the run is at
    strict,       \* the library rejects a rectangle with x1 < x0
    size,         \* create_icon: the parameter size
    img,          \* create_icon: the canvas, pixel <<x, y>> -> <<r, g, b, a>>
    y,            \* create_icon: the loop variable y of the teeth loop
    toggle,       \* create_icon: the loop variable toggle
    teeth,        \* history: the rectangle calls of the teeth loop, in order
    sizes,        \* main: the size table
    master,       \* main: the side of the master icon, 0 before it exists
    renders,      \* history: the calls of create_icon made by main
    i,            \* main: the number of size specs the for loop has taken
    base_size,    \* main: loop variable (tenths)
    scale,        \* main: loop variable
    actual_size,  \* main: loop variable
    filename,     \* main: loop variable
    icon,         \* main: the side of the resized icon of this iteration
    fs,           \* the output directory: file name -> [side, writes]
    contents_json,\* the output directory: Contents.json, <<>> while absent
    out,          \* the console: the lines printed
    contents      \* main: contents["images"]

vars == << entry, pc, strict, size, img, y, toggle, teeth, sizes, master,
           renders, i, base_size, scale, actual_size, filename, icon, fs,
           contents_json, out, contents >>

renderVars == << size, img, y, toggle, teeth, strict >>
mainVars == << sizes, master, renders, i, base_size, scale, actual_size,
               filename, icon, fs, contents_json, out, contents >>

(***************************************************************************)
(* Bounds                                                                  *)
(***************************************************************************)
\* create_icon is called with every side length of 1..MaxN
MaxN == 40
\* the history of the teeth loop keeps its first MaxTeeth calls
MaxTeeth == 12

(***************************************************************************)
(* create_gradient                                                         *)
(***************************************************************************)
color1 == << 102, 126, 234 >>
color2 == << 118, 75, 162 >>

Pixels(n) == (0 .. n - 1) \X (0 .. n - 1)

\* a slip: the ratio taken along the row only, ratio = x / (2 * size)
ChannelRowOnly(n, c1, c2, x, yy) == (c1 * 2 * n + (c2 - c1) * x) \div (2 * n)

\* int(c1 + (c2 - c1) * ratio) with ratio = (x + y) / (2 * size)
Channel(n, c1, c2, x, yy) == (c1 * 2 * n + (c2 - c1) * (x + yy)) \div (2 * n)

GradientPixel(n, c1, c2, x, yy) ==
    << Channel(n, c1[1], c2[1], x, yy),
       Channel(n, c1[2], c2[2], x, yy),
       Channel(n, c1[3], c2[3], x, yy),
       255 >>

create_gradient(n, c1, c2) ==
    [p \in Pixels(n) |-> GradientPixel(n, c1, c2, p[1], p[2])]

(***************************************************************************)
(* ImageDraw: rectangle, ellipse, polygon.  xy = <<x0, y0, x1, y1>>, both  *)
(* corners included; what lies outside the canvas is clipped.              *)
(***************************************************************************)
Min(a, b) == IF a < b THEN a ELSE b
Max(a, b) == IF a < b THEN b ELSE a

Inverted(xy) == xy[3] < xy[1] \/ xy[4] < xy[2]

InRect(p, xy) ==
    /\ Min(xy[1], xy[3]) <= p[1] /\ p[1] <= Max(xy[1], xy[3])
    /\ Min(xy[2], xy[4]) <= p[2] /\ p[2] <= Max(xy[2], xy[4])

InEllipse(p, xy) ==
    LET w == xy[3] - xy[1]
        h == xy[4] - xy[2]
        dx == 2 * p[1] - xy[1] - xy[3]
        dy == 2 * p[2] - xy[2] - xy[4]
    IN  /\ InRect(p, xy)
        /\ dx * dx * h * h + dy * dy * w * w <= w * w * h * h

\* the edge a-b crosses the half line that leaves p to the right
Crosses(p, a, b) ==
    /\ (a[2] > p[2]) # (b[2] > p[2])
    /\ LET dy == b[2] - a[2]
           lhs == (p[1] - a[1]) * dy
           rhs == (p[2] - a[2]) * (b[1] - a[1])
       IN  IF dy > 0 THEN lhs < rhs ELSE lhs > rhs

OnEdge(p, a, b) ==
    /\ (b[1] - a[1]) * (p[2] - a[2]) = (b[2] - a[2]) * (p[1] - a[1])
    /\ InRect(p, << a[1], a[2], b[1], b[2] >>)

InPolygon(p, pts) ==
    LET n == Len(pts)
        nxt(k) == IF k = n THEN 1 ELSE k + 1
    IN  \/ \E k \in 1 .. n : OnEdge(p, pts[k], pts[nxt(k)])
        \/ Cardinality({k \in 1 .. n : Crosses(p, pts[k], pts[nxt(k)])}) % 2 = 1

rectangle(im, xy, fill) ==
    [p \in DOMAIN im |-> IF InRect(p, xy) THEN fill ELSE im[p]]

ellipse(im, xy, fill) ==
    [p \in DOMAIN im |-> IF InEllipse(p, xy) THEN fill ELSE im[p]]

polygon(im, pts, fill) ==
    [p \in DOMAIN im |-> IF InPolygon(p, pts) THEN fill ELSE im[p]]

(***************************************************************************)
(* draw_rounded_rect                                                       *)
(***************************************************************************)
draw_rounded_rect(im, coords, radius, fill) ==
    LET x1 == coords[1]
        y1 == coords[2]
        x2 == coords[3]
        y2 == coords[4]
        a == rectangle(im, << x1 + radius, y1, x2 - radius, y2 >>, fill)
        b == rectangle(a, << x1, y1 + radius, x2, y2 - radius >>, fill)
        c == ellipse(b, << x1, y1, x1 + 2 * radius, y1 + 2 * radius >>, fill)
        d == ellipse(c, << x2 - 2 * radius, y1, x2, y1 + 2 * radius >>, fill)
        e == ellipse(d, << x1, y2 - 2 * radius, x1 + 2 * radius, y2 >>, fill)
    IN  ellipse(e, << x2 - 2 * radius, y2 - 2 * radius, x2, y2 >>, fill)

(***************************************************************************)
(* create_icon: the measurements                                           *)
(***************************************************************************)
\* int(n * c), c given in thousandths
Frac(n, permille) == (n * permille) \div 1000

center(n) == n \div 2
box_size(n) == Frac(n, 500)
box_left(n) == center(n) - box_size(n) \div 2
box_top(n) == center(n) - box_size(n) \div 2 + Frac(n, 50)
box_right(n) == box_left(n) + box_size(n)
box_bottom(n) == box_top(n) + box_size(n)
box_radius(n) == Frac(n, 50)
box_fill == << 255, 255, 255, 230 >>

zipper_x(n) == center(n)
zipper_width(n) == Frac(n, 80)
tooth_height(n) == Frac(n, 40)
tooth_gap(n) == Frac(n, 60)
zipper_top(n) == box_top(n) + Frac(n, 80)
zipper_bottom(n) == box_bottom(n) - Frac(n, 80)

left_tooth(n, yy) ==
    << zipper_x(n) - zipper_width(n), yy, zipper_x(n) - 2, yy + tooth_height(n) >>
right_tooth(n, yy) ==
    << zipper_x(n) + 2, yy, zipper_x(n) + zipper_width(n), yy + tooth_height(n) >>

pull_size(n) == Frac(n, 80)
pull_y(n) == zipper_top(n) - pull_size(n)
gold == << 255, 215, 0, 255 >>

crown_y(n) == Frac(n, 120)
crown_height(n) == Frac(n, 120)
crown_width(n) == Frac(n, 250)
crown_left(n) == center(n) - crown_width(n)
crown_right(n) == center(n) + crown_width(n)
points(n) ==
    << << crown_left(n), crown_y(n) + crown_height(n) >>,
       << crown_left(n), crown_y(n) + crown_height(n) \div 2 >>,
       << crown_left(n) + crown_width(n) \div 2, crown_y(n) + crown_height(n) >>,
       << center(n), crown_y(n) >>,
       << crown_right(n) - crown_width(n) \div 2, crown_y(n) + crown_height(n) >>,
       << crown_right(n), crown_y(n) + crown_height(n) \div 2 >>,
       << crown_right(n), crown_y(n) + crown_height(n) >> >>

gem_size(n) == Frac(n, 25)
gem_red == << 255, 100, 100, 255 >>

NoImage == [p \in {} |-> << >>]

(***************************************************************************)
(* create_icon: the steps                                                  *)
(***************************************************************************)
\* img = create_gradient(size, color1, color2)
Background ==
    /\ pc = "create_gradient"
    /\ img' = create_gradient(size, color1, color2)
    /\ pc' = "draw_rounded_rect"
    /\ UNCHANGED << entry, strict, size, y, toggle, teeth >>
    /\ UNCHANGED mainVars

\* draw_rounded_rect(draw, (box_left, box_top, box_right, box_bottom), ...)
Box ==
    /\ pc = "draw_rounded_rect"
    /\ img' = draw_rounded_rect(img,
                  << box_left(size), box_top(size), box_right(size), box_bottom(size) >>,
                  box_radius(size), box_fill)
    /\ pc' = "zipper"
    /\ UNCHANGED << entry, strict, size, y, toggle, teeth >>
    /\ UNCHANGED mainVars

\* y = zipper_top; toggle = True
Zipper ==
    /\ pc = "zipper"
    /\ y' = zipper_top(size)
    /\ toggle' = TRUE
    /\ pc' = "while"
    /\ UNCHANGED << entry, strict, size, img, teeth >>
    /\ UNCHANGED mainVars

Tooth(n, yy, tg) ==
    IF tg THEN [side |-> "left", xy |-> left_tooth(n, yy), fill |-> color1 \o << 255 >>]
          ELSE [side |-> "right", xy |-> right_tooth(n, yy), fill |-> color2 \o << 255 >>]

\* a slip: toggle is never flipped
ToothStepNoToggle ==
    /\ pc = "while"
    /\ y < zipper_bottom(size) - tooth_height(size)
    /\ LET t == Tooth(size, y, toggle)
       IN  IF strict /\ Inverted(t.xy)
           THEN /\ pc' = "raised"
                /\ UNCHANGED << img, y, toggle, teeth >>
           ELSE /\ img' = rectangle(img, t.xy, t.fill)
                /\ teeth' = IF Len(teeth) < MaxTeeth THEN Append(teeth, t) ELSE teeth
                /\ y' = y + tooth_gap(size)
                /\ toggle' = toggle
                /\ pc' = "while"
    /\ UNCHANGED << entry, strict, size >>
    /\ UNCHANGED mainVars

\* one iteration of the while loop: the tooth, y += tooth_gap, toggle = not toggle
ToothStep ==
    /\ pc = "while"
    /\ y < zipper_bottom(size) - tooth_height(size)
    /\ LET t == Tooth(size, y, toggle)
       IN  IF strict /\ Inverted(t.xy)
           THEN /\ pc' = "raised"
                /\ UNCHANGED << img, y, toggle, teeth >>
           ELSE /\ img' = rectangle(img, t.xy, t.fill)
                /\ teeth' = IF Len(teeth) < MaxTeeth THEN Append(teeth, t) ELSE teeth
                /\ y' = y + tooth_gap(size)
                /\ toggle' = ~toggle
                /\ pc' = "while"
    /\ UNCHANGED << entry, strict, size >>
    /\ UNCHANGED mainVars

\* the while condition is false
TeethDone ==
    /\ pc = "while"
    /\ ~(y < zipper_bottom(size) - tooth_height(size))
    /\ pc' = "pull"
    /\ UNCHANGED << entry, strict, size, img, y, toggle, teeth >>
    /\ UNCHANGED mainVars

Pull ==
    /\ pc = "pull"
    /\ img' = ellipse(img,
                  << center(size) - pull_size(size), pull_y(size),
                     center(size) + pull_size(size), pull_y(size) + pull_size(size) * 2 >>,
                  gold)
    /\ pc' = "crown"
    /\ UNCHANGED << entry, strict, size, y, toggle, teeth >>
    /\ UNCHANGED mainVars

Crown ==
    /\ pc = "crown"
    /\ img' = polygon(img, points(size), gold)
    /\ pc' = "gem"
    /\ UNCHANGED << entry, strict, size, y, toggle, teeth >>
    /\ UNCHANGED mainVars

\* the gem, and return img
Gem ==
    /\ pc = "gem"
    /\ img' = ellipse(img,
                  << center(size) - gem_size(size), crown_y(size) + gem_size(size),
                     center(size) + gem_size(size), crown_y(size) + gem_size(size) * 3 >>,
                  gem_red)
    /\ pc' = "returned"
    /\ UNCHANGED << entry, strict, size, y, toggle, teeth >>
    /\ UNCHANGED mainVars


(***************************************************************************)
(* main: the size table, sizes and names                                   *)
(***************************************************************************)
\* the logical size n, in tenths
T(n) == n * 10

ReferenceSizes ==
    << << T(20), 1 >>, << T(20), 2 >>, << T(20), 3 >>,
       << T(29), 1 >>, << T(29), 2 >>, << T(29), 3 >>,
       << T(40), 1 >>, << T(40), 2 >>, << T(40), 3 >>,
       << T(60), 2 >>, << T(60), 3 >>,
       << T(76), 1 >>, << T(76), 2 >>,
       << 835, 2 >>,
       << T(1024), 1 >> >>

\* master = create_icon(1024)
MasterSize == 1024

\* a slip: the logical size truncated before it is scaled
ActualSizeTruncFirst(b, s) == (b \div 10) * s

\* int(base_size * scale)
ActualSize(b, s) == (b * s) \div 10

DigitChars == << "0", "1", "2", "3", "4", "5", "6", "7", "8", "9" >>

RECURSIVE Dec(_)
\* str(n) of an int n >= 0
Dec(n) == IF n < 10 THEN << DigitChars[n + 1] >>
                    ELSE Dec(n \div 10) \o << DigitChars[(n % 10) + 1] >>

\* str(base_size): an int prints its digits, the float 83.5 prints "83.5"
SizeStr(b) == IF b % 10 = 0 THEN Dec(b \div 10)
                            ELSE Dec(b \div 10) \o << "." >> \o Dec(b % 10)

\* f"icon_{actual_size}x{actual_size}.png"
FileName(a) ==
    << "i", "c", "o", "n", "_" >> \o Dec(a) \o << "x" >> \o Dec(a)
        \o << ".", "p", "n", "g" >>

\* f"Created: {filename}"
CreatedLine(name) == << "C", "r", "e", "a", "t", "e", "d", ":", " " >> \o name

ContentsName ==
    << "C", "o", "n", "t", "e", "n", "t", "s", ".", "j", "s", "o", "n" >>

\* a slip: the 1024 rule left out
IdiomNoMarketing(b) ==
    IF b \in {T(20), T(29), T(40), T(60)} THEN "iphone" ELSE "ipad"

Idiom(b) ==
    IF b = T(1024) THEN "ios-marketing"
    ELSE IF b \in {T(20), T(29), T(40), T(60)} THEN "iphone" ELSE "ipad"

Entry(name, b, s) ==
    [filename |-> name,
     idiom |-> Idiom(b),
     scale |-> Dec(s) \o << "x" >>,
     size |-> SizeStr(b) \o << "x" >> \o SizeStr(b)]

NoFiles == [f \in {} |-> 0]

(***************************************************************************)
(* main: the steps.  create_icon(1024) is taken as one step that yields a  *)
(* master of side 1024; its pixels are not kept.  A save that fails raises *)
(* and nothing catches it; the file it was to write is left as it was.     *)
(***************************************************************************)
CreateMaster ==
    /\ pc = "main"
    /\ master' = MasterSize
    /\ renders' = renders + 1
    /\ contents' = << >>
    /\ pc' = "for"
    /\ UNCHANGED << sizes, i, base_size, scale, actual_size, filename, icon,
                    fs, contents_json, out, entry >>
    /\ UNCHANGED renderVars

\* for base_size, scale in sizes: actual_size = ...; filename = ...
ForNext ==
    /\ pc = "for"
    /\ i < Len(sizes)
    /\ i' = i + 1
    /\ base_size' = sizes[i + 1][1]
    /\ scale' = sizes[i + 1][2]
    /\ actual_size' = ActualSize(sizes[i + 1][1], sizes[i + 1][2])
    /\ filename' = FileName(ActualSize(sizes[i + 1][1], sizes[i + 1][2]))
    /\ pc' = "resize"
    /\ UNCHANGED << sizes, master, renders, icon, fs, contents_json, out,
                    contents, entry >>
    /\ UNCHANGED renderVars

\* icon = master.resize((actual_size, actual_size), Image.LANCZOS)
Resize ==
    /\ pc = "resize"
    /\ icon' = actual_size
    /\ pc' = "save"
    /\ UNCHANGED << sizes, master, renders, i, base_size, scale, actual_size,
                    filename, fs, contents_json, out, contents, entry >>
    /\ UNCHANGED renderVars

Written(f, name, side) ==
    (name :> [side |-> side,
              writes |-> IF name \in DOMAIN f THEN f[name].writes + 1 ELSE 1]) @@ f

\* icon.save(filepath, "PNG")
Save ==
    /\ pc = "save"
    /\ fs' = Written(fs, filename, icon)
    /\ pc' = "print"
    /\ UNCHANGED << sizes, master, renders, i, base_size, scale, actual_size,
                    filename, icon, contents_json, out, contents, entry >>
    /\ UNCHANGED renderVars

\* a slip: the failure of a save swallowed, the loop goes on
SaveFailsSwallowed ==
    /\ pc = "save"
    /\ pc' = "for"
    /\ UNCHANGED mainVars
    /\ UNCHANGED entry
    /\ UNCHANGED renderVars

\* icon.save raises (the directory is missing or not writable, the disk is full)
SaveFails ==
    /\ pc = "save"
    /\ pc' = "aborted"
    /\ UNCHANGED mainVars
    /\ UNCHANGED entry
    /\ UNCHANGED renderVars

\* print(f"Created: {filename}")
PrintCreated ==
    /\ pc = "print"
    /\ out' = Append(out, CreatedLine(filename))
    /\ pc' = "append"
    /\ UNCHANGED << sizes, master, renders, i, base_size, scale, actual_size,
                    filename, icon, fs, contents_json, contents, entry >>
    /\ UNCHANGED renderVars

\* a slip: the entry put at the head of the list
AppendEntryAtHead ==
    /\ pc = "append"
    /\ contents' = << Entry(filename, base_size, scale) >> \o contents
    /\ pc' = "for"
    /\ UNCHANGED << sizes, master, renders, i, base_size, scale, actual_size,
                    filename, icon, fs, contents_json, out, entry >>
    /\ UNCHANGED renderVars

\* contents["images"].append({...})
AppendEntry ==
    /\ pc = "append"
    /\ contents' = Append(contents, Entry(filename, base_size, scale))
    /\ pc' = "for"
    /\ UNCHANGED << sizes, master, renders, i, base_size, scale, actual_size,
                    filename, icon, fs, contents_json, out, entry >>
    /\ UNCHANGED renderVars

\* the for loop is exhausted; json.dump(contents, f, indent=2)
WriteContents ==
    /\ pc = "for"
    /\ i = Len(sizes)
    /\ contents_json' = << [images |-> contents,
                           info |-> [author |-> "xcode", version |-> 1]] >>
    /\ pc' = "print_contents"
    /\ UNCHANGED << sizes, master, renders, i, base_size, scale, actual_size,
                    filename, icon, fs, out, contents, entry >>
    /\ UNCHANGED renderVars

\* open(contents_path, "w") raises
WriteContentsFails ==
    /\ pc = "for"
    /\ i = Len(sizes)
    /\ pc' = "aborted"
    /\ UNCHANGED mainVars
    /\ UNCHANGED entry
    /\ UNCHANGED renderVars

\* print(f"Created: Contents.json")
PrintContents ==
    /\ pc = "print_contents"
    /\ out' = Append(out, CreatedLine(ContentsName))
    /\ pc' = "done"
    /\ UNCHANGED << sizes, master, renders, i, base_size, scale, actual_size,
                    filename, icon, fs, contents_json, contents, entry >>
    /\ UNCHANGED renderVars

(***************************************************************************)
(* The specifications                                                      *)
(***************************************************************************)
InitRender ==
    /\ entry = "create_icon"
    /\ pc = "create_gradient"
    /\ strict \in BOOLEAN
    /\ size \in 1 .. MaxN
    /\ img = NoImage
    /\ y = 0
    /\ toggle = TRUE
    /\ teeth = << >>

IdleRender ==
    /\ strict = FALSE
    /\ size = 0
    /\ img = NoImage
    /\ y = 0
    /\ toggle = TRUE
    /\ teeth = << >>

InitMain ==
    /\ master = 0
    /\ renders = 0
    /\ i = 0
    /\ base_size = 0
    /\ scale = 0
    /\ actual_size = 0
    /\ filename = << >>
    /\ icon = 0
    /\ fs = NoFiles
    /\ contents_json = << >>
    /\ out = << >>
    /\ contents = << >>

Init ==
    /\ sizes = ReferenceSizes
    /\ InitMain
    /\ \/ InitRender
       \/ entry = "main" /\ pc = "main" /\ IdleRender

\* the size table as it stands, and the table edited: an entry (1024, 2) added,
\* the App Store entry removed
SizeTables ==
    { ReferenceSizes,
      Append(ReferenceSizes, << T(1024), 2 >>),
      SubSeq(ReferenceSizes, 1, Len(ReferenceSizes) - 1) }

InitTables ==
    /\ sizes \in SizeTables
    /\ InitMain
    /\ \/ InitRender /\ sizes = ReferenceSizes
       \/ entry = "main" /\ pc = "main" /\ IdleRender

Next ==
    \/ Background
    \/ Box
    \/ Zipper
    \/ ToothStep
    \/ TeethDone
    \/ Pull
    \/ Crown
    \/ Gem
    \/ CreateMaster
    \/ ForNext
    \/ Resize
    \/ Save
    \/ SaveFails
    \/ PrintCreated
    \/ AppendEntry
    \/ WriteContents
    \/ WriteContentsFails
    \/ PrintContents

Spec == Init /\ [][Next]_vars

\* the interpreter goes on with the while loop: it runs the next iteration
\* when the condition holds and leaves the loop when it does not
FairSpec == Spec /\ WF_vars(ToothStep) /\ WF_vars(TeethDone)

\* main with its size table edited
SpecTables == InitTables /\ [][Next]_vars

(***************************************************************************)
(* Properties                                                              *)
(***************************************************************************)
InLoopBody == pc \in {"resize", "save", "print", "append"}

\* the number of saves the files of the directory have taken
RECURSIVE SaveCount(_)
SaveCount(f) ==
    IF DOMAIN f = {} THEN 0
    ELSE LET n == CHOOSE k \in DOMAIN f : TRUE
         IN  f[n].writes + SaveCount([k \in DOMAIN f \ {n} |-> f[k]])

\* round(t / 10) for t >= 0 in tenths, halves to the even neighbour
Round(t) ==
    LET q == t \div 10
        r == t % 10
    IN  IF r < 5 THEN q
        ELSE IF r > 5 THEN q + 1
        ELSE IF q % 2 = 0 THEN q ELSE q + 1

Icon40 == << "i", "c", "o", "n", "_", "4", "0", "x", "4", "0", ".", "p", "n", "g" >>
Icon167 ==
    << "i", "c", "o", "n", "_", "1", "6", "7", "x", "1", "6", "7", ".", "p", "n", "g" >>

\* C1: at every point of main the images list holds exactly the entries of
\* the size specs whose iteration is complete, in the order of the table (the
\* j-th entry carries the logical size and the scale of the j-th size spec),
\* and once main is done the list, and the manifest written, has one entry
\* per size spec: 15.
C1_ManifestFollowsTable ==
    entry = "main" =>
        /\ Len(contents) = (IF InLoopBody THEN i - 1
                            ELSE IF pc = "aborted" /\ contents_json = << >>
                                      /\ SaveCount(fs) < i THEN i - 1
                            ELSE i)
        /\ \A j \in 1 .. Len(contents) :
              /\ contents[j].size =
                    SizeStr(sizes[j][1]) \o << "x" >> \o SizeStr(sizes[j][1])
              /\ contents[j].scale = Dec(sizes[j][2]) \o << "x" >>
              /\ contents[j].filename =
                    FileName(ActualSize(sizes[j][1], sizes[j][2]))
        /\ pc = "done" =>
              /\ Len(contents) = Len(sizes)
              /\ Len(contents) = 15
              /\ contents_json[1].images = contents

C1_Witness ==
    /\ entry = "main"
    /\ pc = "done"
    /\ Len(contents_json[1].images) = 15

\* C2: no two manifest entries carry the same filename and no image file is
\* written twice.
C2_FilenamesUnique ==
    entry = "main" =>
        /\ \A j, k \in 1 .. Len(contents) :
              j # k => contents[j].filename # contents[k].filename
        /\ \A f \in DOMAIN fs : fs[f].writes = 1

\* C3: for every size spec of the table the exported image has side
\* W = round(logical * scale), is saved as icon_{W}x{W}.png, and that name is
\* the one of the spec's manifest entry; (20, 2) gives icon_40x40.png and
\* its entry, (83.5, 2) gives icon_167x167.png.
C3_SizeAndName ==
    entry = "main" =>
        /\ pc \in {"save", "print", "append"} =>
              /\ icon = Round(base_size * scale)
              /\ filename = FileName(Round(base_size * scale))
        /\ pc \in {"print", "append"} =>
              /\ filename \in DOMAIN fs
              /\ fs[filename].side = Round(base_size * scale)
        /\ \A j \in 1 .. Len(contents) :
              LET W == Round(sizes[j][1] * sizes[j][2])
              IN  /\ contents[j].filename = FileName(W)
                  /\ FileName(W) \in DOMAIN fs
                  /\ fs[FileName(W)].side = W
        /\ Len(contents) >= 2 =>
              /\ contents[2] = [filename |-> Icon40, idiom |-> "iphone",
                                scale |-> << "2", "x" >>,
                                size |-> << "2", "0", "x", "2", "0" >>]
              /\ fs[Icon40].side = 40
        /\ Len(contents) >= 14 =>
              /\ contents[14].filename = Icon167
              /\ fs[Icon167].side = 167

C3_Witness ==
    /\ entry = "main"
    /\ Len(contents) >= 14
    /\ sizes[14] = << 835, 2 >>
    /\ Icon167 \in DOMAIN fs

\* C4: the idiom of an entry is decided by the logical size alone: 20, 29,
\* 40, 60 give "iphone", 1024 gives "ios-marketing", anything else "ipad";
\* entries of one logical size have one idiom whatever their scale.
C4_IdiomByLogicalSize ==
    entry = "main" =>
        /\ \A j \in 1 .. Len(contents) :
              contents[j].idiom =
                  CASE sizes[j][1] \in {200, 290, 400, 600} -> "iphone"
                    [] sizes[j][1] = 10240 -> "ios-marketing"
                    [] OTHER -> "ipad"
        /\ \A j, k \in 1 .. Len(contents) :
              sizes[j][1] = sizes[k][1] => contents[j].idiom = contents[k].idiom

C4_Witness ==
    /\ entry = "main"
    /\ Len(contents) = 15
    /\ contents[15].idiom = "ios-marketing"
    /\ contents[12].idiom = "ipad"
    /\ contents[14].idiom = "ipad"

\* C5: the canvas of create_icon(size) is size x size and every pixel it
\* holds, at every drawing step and when it is returned, has alpha 255.
C5_FullyOpaque ==
    (entry = "create_icon" /\ pc # "create_gradient") =>
        /\ DOMAIN img = Pixels(size)
        /\ \A p \in DOMAIN img : img[p][4] = 255

\* C5, the canvas returned only
C5_ReturnedOpaque ==
    (entry = "create_icon" /\ pc = "returned") =>
        \A p \in DOMAIN img : img[p][4] = 255

RECURSIVE MaxActual(_, _)
\* the largest int(logical * scale) of the first n entries of the table
MaxActual(tbl, n) ==
    IF n = 0 THEN 0
    ELSE Max(ActualSize(tbl[n][1], tbl[n][2]), MaxActual(tbl, n - 1))

\* C6: whatever the size table, main renders the master once, before the
\* first resize, at the largest actual size of the table, and no export is
\* larger than the master.
C6_MasterIsMaxOfTable ==
    entry = "main" =>
        /\ pc # "main" => renders = 1
        /\ master # 0 => master = MaxActual(sizes, Len(sizes))
        /\ icon <= master

\* C7: a save that fails ends the run: nothing is done after it, the failed
\* file has no "Created:" line, and Contents.json is absent; Contents.json is
\* written only when every size spec's image has been saved.
C7_State ==
    entry = "main" =>
        /\ contents_json # << >> =>
              /\ i = Len(sizes)
              /\ SaveCount(fs) = Len(sizes)
              /\ \A j \in 1 .. Len(sizes) :
                    FileName(ActualSize(sizes[j][1], sizes[j][2])) \in DOMAIN fs
        /\ pc = "aborted" =>
              /\ contents_json = << >>
              /\ SaveCount(fs) \in {i - 1, Len(sizes)}
              /\ Len(out) = SaveCount(fs)
              /\ \A j \in 1 .. Len(out) :
                    out[j] = CreatedLine(FileName(ActualSize(sizes[j][1], sizes[j][2])))

C7_AbortsOnFirstFailure == [](C7_State) /\ [][pc # "aborted"]_vars

C7_Witness ==
    /\ entry = "main"
    /\ pc = "aborted"
    /\ i = 7
    /\ SaveCount(fs) = 6
    /\ Len(out) = 6

Near(a, b) == a - b \in {-1, 0, 1}
NearColor(px, c) == Near(px[1], c[1]) /\ Near(px[2], c[2]) /\ Near(px[3], c[3])

\* C8 as stated: for every size > 0 the gradient's pixel (0, 0) is within 1
\* per channel of the start color and its pixel (size-1, size-1) within 1 per
\* channel of the end color.
C8_GradientEndpoints ==
    (entry = "create_icon" /\ pc = "draw_rounded_rect") =>
        /\ NearColor(img[<< 0, 0 >>], color1)
        /\ NearColor(img[<< size - 1, size - 1 >>], color2)

\* C8 amended: pixel (0, 0) is the start color for every size > 0; pixel
\* (size-1, size-1) is within 1 per channel of the end color when size >= 37,
\* and is not when size < 37.
C8_GradientEndpointsFrom37 ==
    (entry = "create_icon" /\ pc = "draw_rounded_rect") =>
        /\ img[<< 0, 0 >>] = << 102, 126, 234, 255 >>
        /\ NearColor(img[<< size - 1, size - 1 >>], color2) <=> size >= 37

C8_Witness ==
    /\ entry = "create_icon"
    /\ pc = "draw_rounded_rect"
    /\ size >= 37
    /\ img[<< size - 1, size - 1 >>] = << 117, 76, 163, 255 >>

\* C9: the teeth loop of create_icon ends for every size > 0.
C9_TeethLoopEnds == (pc = "while") ~> (pc # "while")

\* C10: the k-th tooth drawn (k = 0, 1, ...) is a left tooth in the start
\* color for even k and a right tooth in the end color for odd k, its top is
\* at zipper_top + k * int(0.06 * size), and its bottom edge is above
\* zipper_bottom = box_bottom - int(0.08 * size).
C10_TeethAlternate ==
    entry = "create_icon" =>
        \A k \in 0 .. Len(teeth) - 1 :
            LET t == teeth[k + 1]
            IN  /\ t.side = (IF k % 2 = 0 THEN "left" ELSE "right")
                /\ t.fill = (IF k % 2 = 0 THEN << 102, 126, 234, 255 >>
                                          ELSE << 118, 75, 162, 255 >>)
                /\ t.xy[2] = box_top(size) + (size * 8) \div 100
                                + k * ((size * 6) \div 100)
                /\ t.xy[4] = t.xy[2] + (size * 4) \div 100
                /\ t.xy[4] < box_bottom(size) - (size * 8) \div 100
                /\ t.xy[4] < box_bottom(size)
                /\ IF k % 2 = 0
                   THEN t.xy[1] <= center(size) /\ t.xy[3] <= center(size)
                   ELSE t.xy[1] >= center(size) /\ t.xy[3] >= center(size)

C10_Witness ==
    /\ entry = "create_icon"
    /\ pc = "returned"
    /\ size >= 25
    /\ Len(teeth) >= 4
    /\ teeth[3].side = "left"
    /\ teeth[4].side = "right"

=============================================================================
